---------------------------- MODULE Spec2Model ----------------------------
(***************************************************************************)
(* Model of the task storage component (src/pkg/storage.go).               *)
(*                                                                         *)
(* The store is a PostgreSQL database reached through a pgx v4 connection  *)
(* pool.  The state of the model is the content of the three relations     *)
(* the queries read and write (tasks, labels, task_labels), the sequence   *)
(* that generates task identifiers, the number of pool connections that   *)
(* are currently not released, and the record of the last call: its        *)
(* arguments, the fault the store injected into it, and what it returned.  *)
(*                                                                         *)
(* Every exported method is one action.  A method is a single round trip:  *)
(* acquire a connection, run one statement, read the rows, release.        *)
(* The store may fail a call: "query" (the statement or the connection     *)
(* fails, Query/QueryRow/Exec report an error), "scan" (a row cannot be    *)
(* decoded, rows.Scan reports an error) and "rows" (the stream of rows     *)
(* breaks after some rows were delivered, rows.Next returns false and      *)
(* rows.Err reports the error).                                            *)
(***************************************************************************)
EXTENDS Integers, Sequences, FiniteSets

(* Bounds of the model. *)
MaxId == 2
MaxAssoc == 2
PoolSize == 2

(* Values of the inputs. *)
IdArgs == 0..(MaxId + 1)
AuthorArgs == {0, 1}
LabelIds == {1, 2}
LabelArgs == {"bug", "ui"}
AssocKeys == {1, 2} \X LabelIds

(* Errors a method returns; Nil is Go's nil error. *)
Nil == "nil"
QueryError == "QueryError"
ScanError == "ScanError"
ErrNoRows == "ErrNoRows"

ListFaults == {"none", "query", "scan", "rows"}
RowFaults == {"none", "query", "scan"}
ExecFaults == {"none", "query"}

(* type Task struct *)
Task(id, opened, closed, author, assigned, title, content) ==
    [ID |-> id, Opened |-> opened, Closed |-> closed, AuthorID |-> author,
     AssignedID |-> assigned, Title |-> title, Content |-> content]

(* Task{}: the zero value of the struct. *)
ZeroTask == Task(0, 0, 0, 0, 0, "", "")

(* The Task values callers pass to NewTask and UpdateTask. *)
TaskInputs ==
    { Task(MaxId, 1, 1, 1, 1, "T", "C"),
      Task(0, 0, 0, 0, 0, "U", "D") }

(* The column defaults of relation tasks (the schema is not part of the   *)
(* component; a database has one of these).                                *)
DefaultRows ==
    { [Opened |-> 0, Closed |-> 0, AuthorID |-> 0, AssignedID |-> 0],
      [Opened |-> 1, Closed |-> 0, AuthorID |-> 1, AssignedID |-> 0] }

VARIABLES
    tasks,        \* relation tasks: a set of Task rows, id is the key
    nextId,       \* the sequence behind tasks.id
    defaults,     \* column defaults of tasks
    labels,       \* relation labels: label id -> label text
    task_labels,  \* relation task_labels: <<task_id, label_id>> -> number of rows
    held,         \* pool connections acquired and not released
    last          \* the last call and what it returned

vars == <<tasks, nextId, defaults, labels, task_labels, held, last>>

Ids(T) == {t.ID : t \in T}

Call(op, id, author, label, task, fault, res, one, rid, err) ==
    [op |-> op, id |-> id, authorID |-> author, label |-> label, task |-> task,
     fault |-> fault, tasks |-> res, one |-> one, rid |-> rid, err |-> err]

-----------------------------------------------------------------------------
(* The statements. *)

(* ORDER BY id over a set of rows with distinct ids. *)
RECURSIVE OrderById(_)
OrderById(S) ==
    IF S = {} THEN <<>>
    ELSE LET m == CHOOSE t \in S : \A u \in S : t.ID <= u.ID
         IN <<m>> \o OrderById(S \ {m})

(* The filter without the wildcard: WHERE id = $1 AND author_id = $2 *)
TasksWhereNoWildcard(t, taskID, authorID) ==
    /\ t.ID = taskID
    /\ t.AuthorID = authorID

(* WHERE ($1 = 0 OR id = $1) AND ($2 = 0 OR author_id = $2) *)
TasksWhere(t, taskID, authorID) ==
    /\ (taskID = 0 \/ t.ID = taskID)
    /\ (authorID = 0 \/ t.AuthorID = authorID)

(* The statement of Tasks with $2 bound in both places of the filter:     *)
(* WHERE ($2 = 0 OR id = $2) AND ($2 = 0 OR author_id = $2)              *)
TasksQueryAuthorTwice(T, taskID, authorID) ==
    OrderById({t \in T : TasksWhere(t, authorID, authorID)})

TasksQuery(T, taskID, authorID) ==
    OrderById({t \in T : TasksWhere(t, taskID, authorID)})

(* The filter of Tasks copied over: WHERE ($1 = 0 OR author_id = $1) *)
AuthorWhereWildcard(t, authorID) == authorID = 0 \/ t.AuthorID = authorID

(* WHERE author_id = $1 *)
AuthorWhere(t, authorID) == t.AuthorID = authorID

TasksByAuthorQuery(T, authorID) ==
    OrderById({t \in T : AuthorWhere(t, authorID)})

(* Sum of f over the finite set S. *)
RECURSIVE SumOver(_, _)
SumOver(S, f) ==
    IF S = {} THEN 0
    ELSE LET x == CHOOSE y \in S : TRUE
         IN f[x] + SumOver(S \ {x}, f)

(* The joins without WHERE l.label = $1. *)
JoinRowsAnyLabel(t, L, TL, label) ==
    LET K == {k \in DOMAIN TL : k[1] = t.ID}
    IN SumOver(K, TL)

(* The rows the two inner joins produce for task t: one per pair of a     *)
(* task_labels row tl with tl.task_id = t.id and a labels row l with      *)
(* tl.label_id = l.id and l.label = $1.                                    *)
JoinRows(t, L, TL, label) ==
    LET K == {k \in DOMAIN TL : k[1] = t.ID /\ L[k[2]] = label}
    IN SumOver(K, TL)

RECURSIVE Repeat(_, _)
Repeat(x, n) == IF n = 0 THEN <<>> ELSE <<x>> \o Repeat(x, n - 1)

RECURSIVE JoinSeq(_, _, _, _)
JoinSeq(ordered, L, TL, label) ==
    IF ordered = <<>> THEN <<>>
    ELSE Repeat(Head(ordered), JoinRows(Head(ordered), L, TL, label))
             \o JoinSeq(Tail(ordered), L, TL, label)

TasksByLabelQuery(T, L, TL, label) == JoinSeq(OrderById(T), L, TL, label)

-----------------------------------------------------------------------------
(* Reading the rows. *)

(* The loop "for rows.Next() { rows.Scan(...); append }" and the return    *)
(* after it, from row i on, with acc the tasks appended so far.  k is the  *)
(* place of the fault: the row that does not decode ("scan"), or the      *)
(* number of rows delivered before the stream breaks ("rows").  closed    *)
(* tells whether the rows were closed when the loop is left: pgx closes    *)
(* them when Next returns false and when Scan fails.                       *)
(* The loop written "if rows.Next()": it reads one row and returns, and    *)
(* the rows are still open when it does.                                   *)
IterateFirstRow(rows, i, acc, fault, k) ==
    IF fault = "rows" /\ i = k
    THEN [tasks |-> acc, err |-> QueryError, closed |-> TRUE]
    ELSE IF i = Len(rows)
    THEN [tasks |-> acc, err |-> Nil, closed |-> TRUE]
    ELSE IF fault = "scan" /\ i + 1 = k
    THEN [tasks |-> <<>>, err |-> ScanError, closed |-> TRUE]
    ELSE [tasks |-> Append(acc, rows[i + 1]), err |-> Nil, closed |-> FALSE]

RECURSIVE Iterate(_, _, _, _, _)
Iterate(rows, i, acc, fault, k) ==
    IF fault = "rows" /\ i = k
    THEN [tasks |-> acc, err |-> QueryError, closed |-> TRUE]
    ELSE IF i = Len(rows)
    THEN [tasks |-> acc, err |-> Nil, closed |-> TRUE]
    ELSE IF fault = "scan" /\ i + 1 = k
    THEN [tasks |-> <<>>, err |-> ScanError, closed |-> TRUE]
    ELSE Iterate(rows, i + 1, Append(acc, rows[i + 1]), fault, k)

(* The places a fault can take in a result of n rows. *)
FaultPlaces(fault, n) ==
    CASE fault = "scan" -> 1..n
      [] fault = "rows" -> 0..n
      [] OTHER -> {0}

-----------------------------------------------------------------------------
(* The methods, as functions of the store, the arguments and the fault.    *)
(* released tells whether the connection the call acquired is back in the  *)
(* pool when the method returns.                                           *)

(* func (s *Storage) Tasks(taskID, authorID int) ([]Task, error)           *)
(* No rows.Close() is deferred: the connection is released when pgx        *)
(* closes the rows.                                                        *)
TasksRun(T, taskID, authorID, fault, k) ==
    IF fault = "query"
    THEN [tasks |-> <<>>, err |-> QueryError, released |-> TRUE]
    ELSE LET r == Iterate(TasksQuery(T, taskID, authorID), 0, <<>>, fault, k)
         IN [tasks |-> r.tasks, err |-> r.err, released |-> r.closed]

(* func (s *Storage) TasksByAuthor(authorID int) ([]Task, error)           *)
(* defer rows.Close() releases the connection on every return.             *)
TasksByAuthorRun(T, authorID, fault, k) ==
    IF fault = "query"
    THEN [tasks |-> <<>>, err |-> QueryError, released |-> TRUE]
    ELSE LET r == Iterate(TasksByAuthorQuery(T, authorID), 0, <<>>, fault, k)
         IN [tasks |-> r.tasks, err |-> r.err, released |-> TRUE]

(* func (s *Storage) TasksByLabel(label string) ([]Task, error)            *)
TasksByLabelRun(T, L, TL, label, fault, k) ==
    IF fault = "query"
    THEN [tasks |-> <<>>, err |-> QueryError, released |-> TRUE]
    ELSE LET r == Iterate(TasksByLabelQuery(T, L, TL, label), 0, <<>>, fault, k)
         IN [tasks |-> r.tasks, err |-> r.err, released |-> TRUE]

(* func (s *Storage) GetTaskByID(id int) (Task, error)                     *)
(* QueryRow(...).Scan reports pgx.ErrNoRows when the statement selects no  *)
(* row, and closes the rows on every path.                                 *)
GetTaskByIDRun(T, id, fault) ==
    IF fault = "query"
    THEN [one |-> ZeroTask, err |-> QueryError, released |-> TRUE]
    ELSE IF id \notin Ids(T)
    THEN [one |-> ZeroTask, err |-> ErrNoRows, released |-> TRUE]
    ELSE IF fault = "scan"
    THEN [one |-> ZeroTask, err |-> ScanError, released |-> TRUE]
    ELSE [one |-> CHOOSE t \in T : t.ID = id, err |-> Nil, released |-> TRUE]

(* NewTask that also writes the caller's author:                           *)
(* INSERT INTO tasks (author_id, title, content) VALUES ($1, $2, $3)       *)
NewTaskRunWithAuthor(T, next, defs, t, fault) ==
    IF fault = "query"
    THEN [store |-> T, next |-> next, rid |-> 0, err |-> QueryError]
    ELSE [store |-> T \cup {Task(next, defs.Opened, defs.Closed, t.AuthorID,
                                  defs.AssignedID, t.Title, t.Content)},
          next |-> next + 1, rid |-> next, err |-> Nil]

(* func (s *Storage) NewTask(t Task) (int, error)                          *)
(* INSERT INTO tasks (title, content) VALUES ($1, $2) RETURNING id         *)
NewTaskRun(T, next, defs, t, fault) ==
    IF fault = "query"
    THEN [store |-> T, next |-> next, rid |-> 0, err |-> QueryError]
    ELSE [store |-> T \cup {Task(next, defs.Opened, defs.Closed, defs.AuthorID,
                                  defs.AssignedID, t.Title, t.Content)},
          next |-> next + 1, rid |-> next, err |-> Nil]

(* UpdateTask whose SET list lacks "closed = $2". *)
UpdateTaskRunKeepsClosed(T, id, v, fault) ==
    IF fault = "query"
    THEN [store |-> T, err |-> QueryError]
    ELSE [store |-> {IF t.ID = id
                     THEN Task(t.ID, v.Opened, t.Closed, v.AuthorID,
                               v.AssignedID, v.Title, v.Content)
                     ELSE t : t \in T},
          err |-> Nil]

(* UpdateTask as an upsert: a row is written also when no row has the id. *)
UpdateTaskRunUpsert(T, id, v, fault) ==
    IF fault = "query"
    THEN [store |-> T, err |-> QueryError]
    ELSE [store |-> {t \in T : t.ID # id}
                      \cup {Task(id, v.Opened, v.Closed, v.AuthorID,
                                  v.AssignedID, v.Title, v.Content)},
          err |-> Nil]

(* func (s *Storage) UpdateTask(id int, updatedTask Task) error            *)
(* UPDATE tasks SET opened = $1, ..., content = $6 WHERE id = $7           *)
UpdateTaskRun(T, id, v, fault) ==
    IF fault = "query"
    THEN [store |-> T, err |-> QueryError]
    ELSE [store |-> {IF t.ID = id
                     THEN Task(t.ID, v.Opened, v.Closed, v.AuthorID,
                               v.AssignedID, v.Title, v.Content)
                     ELSE t : t \in T},
          err |-> Nil]

(* DeleteTaskByID with the comparison inverted: WHERE id <> $1 *)
DeleteTaskByIDRunOthers(T, id, fault) ==
    IF fault = "query"
    THEN [store |-> T, err |-> QueryError]
    ELSE [store |-> {t \in T : t.ID = id}, err |-> Nil]

(* func (s *Storage) DeleteTaskByID(id int) error                          *)
(* DELETE FROM tasks WHERE id = $1                                         *)
DeleteTaskByIDRun(T, id, fault) ==
    IF fault = "query"
    THEN [store |-> T, err |-> QueryError]
    ELSE [store |-> {t \in T : t.ID # id}, err |-> Nil]

-----------------------------------------------------------------------------
(* The state after New(constr): an empty relation tasks, and the labels    *)
(* and the associations other components of the system have written.       *)

Assocs ==
    {f \in [AssocKeys -> 0..MaxAssoc] : SumOver(AssocKeys, f) <= MaxAssoc}

(* The contents of relation labels: with label unique, and without. *)
LabelTables ==
    { [l \in LabelIds |-> IF l = 1 THEN "bug" ELSE "ui"],
      [l \in LabelIds |-> "bug"] }

(* Tasks 1 and 2 both carry label 1, once each. *)
OneLabelEach == [k \in AssocKeys |-> IF k[2] = 1 THEN 1 ELSE 0]

Init ==
    /\ tasks = {}
    /\ nextId = 1
    /\ defaults \in DefaultRows
    /\ labels = [l \in LabelIds |-> IF l = 1 THEN "bug" ELSE "ui"]
    /\ task_labels = OneLabelEach
    /\ held = 0
    /\ last = Call("New", 0, 0, "", ZeroTask, "none", <<>>, ZeroTask, 0, Nil)

(* The pool hands out a connection only while one is free. *)
Acquire == held < PoolSize

Release(released) == held' = IF released THEN held ELSE held + 1

Tasks ==
    \E taskID \in IdArgs, authorID \in AuthorArgs, fault \in ListFaults :
      \E k \in FaultPlaces(fault, Len(TasksQuery(tasks, taskID, authorID))) :
        LET r == TasksRun(tasks, taskID, authorID, fault, k)
        IN /\ Acquire
           /\ last' = Call("Tasks", taskID, authorID, "", ZeroTask, fault,
                           r.tasks, ZeroTask, 0, r.err)
           /\ Release(r.released)
           /\ UNCHANGED <<tasks, nextId, defaults, labels, task_labels>>

TasksByAuthor ==
    \E authorID \in AuthorArgs, fault \in ListFaults :
      \E k \in FaultPlaces(fault, Len(TasksByAuthorQuery(tasks, authorID))) :
        LET r == TasksByAuthorRun(tasks, authorID, fault, k)
        IN /\ Acquire
           /\ last' = Call("TasksByAuthor", 0, authorID, "", ZeroTask, fault,
                           r.tasks, ZeroTask, 0, r.err)
           /\ Release(r.released)
           /\ UNCHANGED <<tasks, nextId, defaults, labels, task_labels>>

TasksByLabel ==
    \E label \in LabelArgs, fault \in ListFaults :
      \E k \in FaultPlaces(fault,
                  Len(TasksByLabelQuery(tasks, labels, task_labels, label))) :
        LET r == TasksByLabelRun(tasks, labels, task_labels, label, fault, k)
        IN /\ Acquire
           /\ last' = Call("TasksByLabel", 0, 0, label, ZeroTask, fault,
                           r.tasks, ZeroTask, 0, r.err)
           /\ Release(r.released)
           /\ UNCHANGED <<tasks, nextId, defaults, labels, task_labels>>

GetTaskByID ==
    \E id \in IdArgs, fault \in RowFaults :
        LET r == GetTaskByIDRun(tasks, id, fault)
        IN /\ Acquire
           /\ last' = Call("GetTaskByID", id, 0, "", ZeroTask, fault,
                           <<>>, r.one, 0, r.err)
           /\ Release(r.released)
           /\ UNCHANGED <<tasks, nextId, defaults, labels, task_labels>>

NewTask ==
    \E t \in TaskInputs, fault \in ExecFaults :
        LET r == NewTaskRun(tasks, nextId, defaults, t, fault)
        IN /\ Acquire
           /\ r.next <= MaxId + 1
           /\ tasks' = r.store
           /\ nextId' = r.next
           /\ last' = Call("NewTask", 0, 0, "", t, fault, <<>>, ZeroTask,
                           r.rid, r.err)
           /\ Release(TRUE)
           /\ UNCHANGED <<defaults, labels, task_labels>>

UpdateTask ==
    \E id \in IdArgs, v \in TaskInputs, fault \in ExecFaults :
        LET r == UpdateTaskRun(tasks, id, v, fault)
        IN /\ Acquire
           /\ tasks' = r.store
           /\ last' = Call("UpdateTask", id, 0, "", v, fault, <<>>, ZeroTask,
                           0, r.err)
           /\ Release(TRUE)
           /\ UNCHANGED <<nextId, defaults, labels, task_labels>>

DeleteTaskByID ==
    \E id \in IdArgs, fault \in ExecFaults :
        LET r == DeleteTaskByIDRun(tasks, id, fault)
        IN /\ Acquire
           /\ tasks' = r.store
           /\ last' = Call("DeleteTaskByID", id, 0, "", ZeroTask, fault, <<>>,
                           ZeroTask, 0, r.err)
           /\ Release(TRUE)
           /\ UNCHANGED <<nextId, defaults, labels, task_labels>>

Next ==
    \/ Tasks
    \/ TasksByAuthor
    \/ TasksByLabel
    \/ GetTaskByID
    \/ NewTask
    \/ UpdateTask
    \/ DeleteTaskByID

Spec == Init /\ [][Next]_vars

(* The label lookup over every content of labels and task_labels. *)
InitLabel ==
    /\ tasks = {}
    /\ nextId = 1
    /\ defaults = [Opened |-> 0, Closed |-> 0, AuthorID |-> 0, AssignedID |-> 0]
    /\ labels \in LabelTables
    /\ task_labels \in Assocs
    /\ held = 0
    /\ last = Call("New", 0, 0, "", ZeroTask, "none", <<>>, ZeroTask, 0, Nil)

NextLabel ==
    \/ NewTask
    \/ DeleteTaskByID
    \/ TasksByLabel

SpecLabel == InitLabel /\ [][NextLabel]_vars

-----------------------------------------------------------------------------
(* Properties. *)

Elems(seq) == {seq[i] : i \in 1..Len(seq)}

StrictlyAscending(seq) ==
    \A i, j \in 1..Len(seq) : i < j => seq[i].ID < seq[j].ID

Ascending(seq) ==
    \A i, j \in 1..Len(seq) : i < j => seq[i].ID <= seq[j].ID

Occurrences(seq, x) == Cardinality({i \in 1..Len(seq) : seq[i] = x})

ListOps == {"Tasks", "TasksByAuthor", "TasksByLabel"}

(* C1: a successful Tasks(taskID, authorID) returns exactly the stored     *)
(* tasks t with (taskID = 0 or t.id = taskID) and (authorID = 0 or         *)
(* t.author_id = authorID), each once, in strictly ascending order of id.  *)
C1_TasksFilterOrdered ==
    (last.op = "Tasks" /\ last.err = Nil) =>
        /\ Elems(last.tasks) =
              {t \in tasks : /\ (last.id = 0 \/ t.ID = last.id)
                             /\ (last.authorID = 0 \/ t.AuthorID = last.authorID)}
        /\ StrictlyAscending(last.tasks)
        /\ (last.id = 0 /\ last.authorID = 0 => Elems(last.tasks) = tasks)

(* Tasks(0, 0) has returned two stored tasks. *)
C1_Witness ==
    /\ last.op = "Tasks" /\ last.err = Nil
    /\ last.id = 0 /\ last.authorID = 0
    /\ Len(last.tasks) = 2

(* The tasks the association and the labels relation tie to a label name. *)
Labelled(label) ==
    {t \in tasks : \E k \in AssocKeys :
        k[1] = t.ID /\ labels[k[2]] = label /\ task_labels[k] > 0}

(* The number of association rows that tie task t to a label of that name. *)
LabelRows(t, label) ==
    SumOver({k \in AssocKeys : k[1] = t.ID /\ labels[k[2]] = label}, task_labels)

(* C2 as claimed: a successful TasksByLabel(label) returns exactly the     *)
(* tasks associated with a label of that name, in ascending order of id,   *)
(* and no task more than once, whatever rows the association holds.        *)
C2_Original ==
    (last.op = "TasksByLabel" /\ last.err = Nil) =>
        /\ Elems(last.tasks) = Labelled(last.label)
        /\ Ascending(last.tasks)
        /\ \A t \in tasks : Occurrences(last.tasks, t) <= 1

(* C2 as amended: a successful TasksByLabel(label) returns exactly the     *)
(* tasks associated with a label of that name, in ascending order of id,   *)
(* each task once for every association row that ties it to such a label;  *)
(* so no task appears twice when no task has two such rows.                *)
C2_TasksByLabelPerRow ==
    (last.op = "TasksByLabel" /\ last.err = Nil) =>
        /\ Elems(last.tasks) = Labelled(last.label)
        /\ Ascending(last.tasks)
        /\ \A t \in tasks : Occurrences(last.tasks, t) = LabelRows(t, last.label)
        /\ (\A t \in tasks : LabelRows(t, last.label) <= 1)
              => StrictlyAscending(last.tasks)

(* TasksByLabel has returned one task twice: the association holds two     *)
(* rows for it that lead to the label.                                     *)
C2_Witness ==
    /\ last.op = "TasksByLabel" /\ last.err = Nil
    /\ Len(last.tasks) = 2
    /\ last.tasks[1] = last.tasks[2]

(* C3: when an operation has returned, with a result or with a query, row  *)
(* or decoding error, the connection it acquired is back in the pool: no   *)
(* connection is held by a finished call.                                  *)
C3_ConnectionsReleased == held = 0

(* Tasks has failed while decoding a row, and Tasks has no deferred Close. *)
C3_Witness ==
    /\ last.op = "Tasks" /\ last.fault = "scan" /\ last.err = ScanError
    /\ held = 0

(* C4: after a successful UpdateTask(id, v) of a stored task, GetTaskByID  *)
(* (id) returns opened, closed, author_id, assigned_id, title and content  *)
(* of v, and the id of the argument, not v.ID.                             *)
C4_UpdateThenGet ==
    (last.op = "UpdateTask" /\ last.err = Nil /\ last.id \in Ids(tasks)) =>
        LET g == GetTaskByIDRun(tasks, last.id, "none")
            v == last.task
        IN /\ g.err = Nil
           /\ g.one = Task(last.id, v.Opened, v.Closed, v.AuthorID,
                           v.AssignedID, v.Title, v.Content)

(* A stored task was updated with a value that carries another id. *)
C4_Witness ==
    /\ last.op = "UpdateTask" /\ last.err = Nil
    /\ last.id \in Ids(tasks)
    /\ last.task.ID # last.id
    /\ last.task.Closed = 1

(* C5: after a successful NewTask(t) that returned r, GetTaskByID(r)       *)
(* returns id r, the title and the content of t, and the column defaults   *)
(* of the store in the other fields: t.ID, t.Opened, t.Closed, t.AuthorID  *)
(* and t.AssignedID leave no trace.                                        *)
C5_NewThenGet ==
    (last.op = "NewTask" /\ last.err = Nil) =>
        LET g == GetTaskByIDRun(tasks, last.rid, "none")
        IN /\ g.err = Nil
           /\ last.rid = nextId - 1
           /\ g.one = Task(last.rid, defaults.Opened, defaults.Closed,
                           defaults.AuthorID, defaults.AssignedID,
                           last.task.Title, last.task.Content)

(* A task was created from a value whose id and author differ from what    *)
(* the store assigned.                                                     *)
C5_Witness ==
    /\ last.op = "NewTask" /\ last.err = Nil
    /\ last.task.ID # last.rid
    /\ last.task.AuthorID # defaults.AuthorID

(* C6: after a successful DeleteTaskByID(id), GetTaskByID(id) fails with   *)
(* ErrNoRows and a second DeleteTaskByID(id) returns nil and leaves the    *)
(* store as it is; GetTaskByID of an id no stored task has fails with      *)
(* ErrNoRows, not with a query error, unless the statement itself failed.  *)
C6_DeleteThenGet ==
    /\ (last.op = "DeleteTaskByID" /\ last.err = Nil) =>
          /\ GetTaskByIDRun(tasks, last.id, "none").err = ErrNoRows
          /\ DeleteTaskByIDRun(tasks, last.id, "none")
                = [store |-> tasks, err |-> Nil]
    /\ (last.op = "GetTaskByID" /\ last.fault # "query"
            /\ last.id \notin Ids(tasks)) =>
          /\ last.err = ErrNoRows
          /\ last.one = ZeroTask

(* An id that was created has been deleted, and another task is stored. *)
C6_Witness ==
    /\ last.op = "DeleteTaskByID" /\ last.err = Nil
    /\ last.id \in 1..(nextId - 1)
    /\ tasks # {}

(* C7: an operation returns a result or a failure, never both: a list      *)
(* operation that fails returns no tasks with the error, also when the     *)
(* failure is reported after rows were read; a failed GetTaskByID returns  *)
(* the zero Task and a failed NewTask no id.                               *)
C7_ResultOrFailure ==
    last.err # Nil =>
        /\ last.op \in ListOps => last.tasks = <<>>
        /\ last.op = "GetTaskByID" => last.one = ZeroTask
        /\ last.op = "NewTask" => last.rid = 0

(* C8 as claimed: for every id, 0 included, a successful Tasks(id, 0)      *)
(* returns the empty sequence or exactly one task whose id is id.          *)
C8_Original ==
    (last.op = "Tasks" /\ last.err = Nil /\ last.authorID = 0) =>
        \/ last.tasks = <<>>
        \/ Len(last.tasks) = 1 /\ last.tasks[1].ID = last.id

(* C8 as amended: for every id other than 0, a successful Tasks(id, 0)     *)
(* returns the empty sequence when no stored task has that id, and else    *)
(* exactly the one stored task whose id is id.                             *)
C8_TasksByIdAtMostOne ==
    (last.op = "Tasks" /\ last.err = Nil /\ last.authorID = 0 /\ last.id # 0) =>
        \/ last.tasks = <<>> /\ last.id \notin Ids(tasks)
        \/ /\ Len(last.tasks) = 1
           /\ last.tasks[1].ID = last.id
           /\ last.tasks[1] \in tasks

(* Tasks(id, 0) with id other than 0 has returned one of two stored tasks. *)
C8_Witness ==
    /\ last.op = "Tasks" /\ last.err = Nil
    /\ last.authorID = 0 /\ last.id # 0
    /\ Len(last.tasks) = 1
    /\ Cardinality(tasks) = 2

(* C9: UpdateTask(id, v) for an id no stored task has returns nil, unless  *)
(* the statement itself failed, and leaves the stored tasks as they are:   *)
(* it creates no task.                                                     *)
C9_UpdateMissingIsNoOp ==
    [][(last'.op = "UpdateTask" /\ last'.fault = "none"
            /\ last'.id \notin Ids(tasks))
         => (last'.err = Nil /\ tasks' = tasks)]_vars

(* UpdateTask of an id no stored task has has returned nil, with a task    *)
(* stored.                                                                 *)
C9_Witness ==
    /\ last.op = "UpdateTask" /\ last.fault = "none" /\ last.err = Nil
    /\ last.id \notin Ids(tasks)
    /\ last.id # 0
    /\ tasks # {}

(* C10: a successful TasksByAuthor(authorID) returns exactly the stored    *)
(* tasks whose author_id is authorID, in strictly ascending order of id,   *)
(* for authorID = 0 too: 0 is no wildcard there.                           *)
C10_TasksByAuthorLiteral ==
    (last.op = "TasksByAuthor" /\ last.err = Nil) =>
        /\ Elems(last.tasks) = {t \in tasks : t.AuthorID = last.authorID}
        /\ StrictlyAscending(last.tasks)

(* TasksByAuthor(0) has returned a task while a task of another author is  *)
(* stored.                                                                 *)
C10_Witness ==
    /\ last.op = "TasksByAuthor" /\ last.err = Nil
    /\ last.authorID = 0
    /\ Len(last.tasks) >= 1
    /\ \E t \in tasks : t.AuthorID # 0

=============================================================================
